---- MODULE Spec2Model ----
(***************************************************************************)
(* Model of src/run_dbt.py: the Flask service that runs DBT commands as    *)
(* subprocesses (DBTRunner.run_dbt_command), sequences them into a         *)
(* pipeline (DBTRunner.run_full_pipeline), emits two monitoring metrics    *)
(* (DBTRunner.send_monitoring_metric) and answers the HTTP handlers        *)
(* run_dbt_pipeline, run_specific_model and run_tests.                     *)
(*                                                                         *)
(* A Python string that is later split on whitespace is modelled by its    *)
(* sequence of tokens; a dict is a record whose DOMAIN is its key set; a   *)
(* call that ends by raising is the record Raised(msg).                    *)
(***************************************************************************)
EXTENDS Integers, Sequences, FiniteSets, TLC

\* ---------------------------------------------------------------- bounds
\* largest subprocess exit code the environment produces (exit codes range
\* over -1..MaxReturnCode: -1 is a child killed by a signal)
MaxReturnCode == 1
\* the wall clock ticks 0..MaxClock
MaxClock == 2
\* longest result list the success-ratio harness draws
MaxLen == 4

\* ---------------------------------------------------------------- inputs
Reqs == {"r1", "r2"}
\* the request slots one sequential client drives
Serial == {"r1"}
RetCodes == (-1)..MaxReturnCode
Outs == {"", "text"}
Msgs == {"No such file or directory: 'dbt'"}
\* targets that arrive in the URL or the body: the three the service accepts,
\* the long spellings it does not, and the empty path segment's stand-in
Targets == {"dev", "staging", "prod", "production", "qa"}
Models == {"daily_metrics", "user_stats"}
\* request.json of run_specific_model: no body, an empty object, or an
\* object with a target key
NoBody == [json |-> "none"]
EmptyBody == [json |-> "object"]
Bodies == {NoBody, EmptyBody} \cup [json : {"object"}, target : Targets]
\* what subprocess.run does: it exits with a return code and captured
\* streams, raises TimeoutExpired, or raises another exception
Outcomes ==
    [kind : {"exit"}, returncode : RetCodes, stdout : Outs, stderr : {""}]
        \cup {[kind |-> "timeout"]}
        \cup [kind : {"raise"}, msg : Msgs]
\* what the Cloud Monitoring client does for one create_time_series call
SinkOutcomes == {"ok", "no_credentials", "unreachable"}

\* ---------------------------------------------------------------- Python values
Raised(msg) == [exception |-> msg]
IsRaised(v) == DOMAIN v = {"exception"}
NoResult == [none |-> TRUE]
NoResponse == [none |-> TRUE]

dbt_project_dir == "/app/dbt_project"

\* f"dbt {command} --target {target} --project-dir {dir}".split()
FullCommand(command, target) ==
    <<"dbt">> \o command \o <<"--target", target, "--project-dir", dbt_project_dir>>

VARIABLES
    now,          \* datetime.utcnow(), in ticks
    pc,           \* per request: the call the handler is blocked in
    handler,      \* per request: the route function serving it
    target,       \* per request: the handler's local `target`
    model_name,   \* per request: run_specific_model's path parameter
    start_time,   \* per request: run_dbt_pipeline's local
    results,      \* per request: run_full_pipeline's local list
    result,       \* per request: run_specific_model / run_tests local
    end_time,     \* per request: run_dbt_pipeline's local
    request_json, \* per request: the body run_specific_model received
    attempted,    \* per request: argv of every subprocess.run it started
    outcomes,     \* per request: what each subprocess.run it started did
    metrics,      \* per request: every send_monitoring_metric call it made
    response,     \* per request: what the handler returned
    rlist,        \* success-ratio harness: the result list
    rate          \* success-ratio harness: the computed value

vars == <<now, pc, handler, target, model_name, start_time, end_time, results,
          result, request_json, attempted, outcomes, metrics, response, rlist, rate>>

\* ---------------------------------------------------------------- DBTRunner
\* run_dbt_command with only the TimeoutExpired handler: any other exception
\* of subprocess.run propagates to the caller
run_dbt_command_no_catchall(command, tgt, outcome) ==
    CASE outcome.kind = "exit" /\ outcome.returncode = 0 ->
            [status |-> "success", command |-> command, target |-> tgt,
             stdout |-> outcome.stdout, stderr |-> outcome.stderr]
      [] outcome.kind = "exit" /\ outcome.returncode # 0 ->
            [status |-> "error", command |-> command, target |-> tgt,
             returncode |-> outcome.returncode,
             stdout |-> outcome.stdout, stderr |-> outcome.stderr]
      [] outcome.kind = "timeout" ->
            [status |-> "timeout", command |-> command, target |-> tgt,
             error |-> "Command timed out after 1 hour"]
      [] outcome.kind = "raise" -> Raised(outcome.msg)

\* DBTRunner.run_dbt_command: the Stage Result built from what subprocess.run did
run_dbt_command(command, tgt, outcome) ==
    CASE outcome.kind = "exit" /\ outcome.returncode = 0 ->
            [status |-> "success", command |-> command, target |-> tgt,
             stdout |-> outcome.stdout, stderr |-> outcome.stderr]
      [] outcome.kind = "exit" /\ outcome.returncode # 0 ->
            [status |-> "error", command |-> command, target |-> tgt,
             returncode |-> outcome.returncode,
             stdout |-> outcome.stdout, stderr |-> outcome.stderr]
      [] outcome.kind = "timeout" ->
            [status |-> "timeout", command |-> command, target |-> tgt,
             error |-> "Command timed out after 1 hour"]
      [] outcome.kind = "raise" ->
            [status |-> "error", command |-> command, target |-> tgt,
             error |-> outcome.msg]

\* run_full_pipeline without the early return after deps
NextStageNoDepsReturn(stage, res) ==
    CASE stage = "deps" -> "seed"
      [] stage = "seed" -> "run"
      [] stage = "run"  -> IF res.status = "success" THEN "test" ELSE "return"
      [] stage = "test" -> "return"

\* run_full_pipeline running test unconditionally
NextStageAlwaysTest(stage, res) ==
    CASE stage = "deps" -> IF res.status # "success" THEN "return" ELSE "seed"
      [] stage = "seed" -> "run"
      [] stage = "run"  -> "test"
      [] stage = "test" -> "return"

\* run_full_pipeline returning early when seed is not success
NextStageSeedReturns(stage, res) ==
    CASE stage = "deps" -> IF res.status # "success" THEN "return" ELSE "seed"
      [] stage = "seed" -> IF res.status # "success" THEN "return" ELSE "run"
      [] stage = "run"  -> IF res.status = "success" THEN "test" ELSE "return"
      [] stage = "test" -> "return"

\* run_full_pipeline going from deps straight to run and loading the seeds
\* after the models
NextStageSeedAfterRun(stage, res) ==
    CASE stage = "deps" -> IF res.status # "success" THEN "return" ELSE "run"
      [] stage = "run"  -> "seed"
      [] stage = "seed" -> IF res.status = "success" THEN "test" ELSE "return"
      [] stage = "test" -> "return"

\* DBTRunner.run_full_pipeline: where control goes once the stage `stage`
\* has returned `res` and it has been appended to results
NextStage(stage, res) ==
    CASE stage = "deps" -> IF res.status # "success" THEN "return" ELSE "seed"
      [] stage = "seed" -> "run"
      [] stage = "run"  -> IF res.status = "success" THEN "test" ELSE "return"
      [] stage = "test" -> "return"

\* send_monitoring_metric without its try/except: a sink failure propagates
send_monitoring_metric_uncaught(metric_name, value, labels, sink) ==
    [raised |-> (sink # "ok"),
     call |-> [metric |-> metric_name, value |-> value, labels |-> labels,
               delivered |-> (sink = "ok")]]

\* DBTRunner.send_monitoring_metric: everything, the client's construction
\* included, is inside try/except Exception, so the call returns None
\* whatever the sink does; `call` is the record of the call
send_monitoring_metric(metric_name, value, labels, sink) ==
    [raised |-> FALSE,
     call |-> [metric |-> metric_name, value |-> value, labels |-> labels,
               delivered |-> (sink = "ok")]]

\* ---------------------------------------------------------------- arithmetic
RECURSIVE GCD(_, _)
GCD(a, b) == IF b = 0 THEN a ELSE GCD(b, a % b)

\* a Python number: the reduced fraction num/den
Number(n, d) == [num |-> n \div GCD(n, d), den |-> d \div GCD(n, d)]

\* Python's a / b on non-negative ints
TrueDiv(a, b) == IF b = 0 THEN Raised("ZeroDivisionError") ELSE Number(a, b)

RECURSIVE CountStatus(_, _)
\* sum(1 for r in results if r['status'] == status)
CountStatus(rs, status) ==
    IF rs = <<>> THEN 0
    ELSE (IF Head(rs).status = status THEN 1 ELSE 0) + CountStatus(Tail(rs), status)

\* the ratio without the guard on the empty list
SuccessRateUnguarded(rs) == TrueDiv(CountStatus(rs, "success"), Len(rs))

\* success_count / len(results) if results else 0
SuccessRate(rs) ==
    IF rs # <<>> THEN TrueDiv(CountStatus(rs, "success"), Len(rs)) ELSE Number(0, 1)

\* only the last stage decides the overall status
AllSuccessLastOnly(rs) == rs # <<>> /\ rs[Len(rs)].status = "success"

\* all(r['status'] == 'success' for r in results)
AllSuccess(rs) == \A i \in 1..Len(rs) : rs[i].status = "success"

\* ---------------------------------------------------------------- handlers
\* the target check with the long spelling of prod let through
AllowedTargetsLong == {"dev", "staging", "prod", "production"}

\* target not in ['dev', 'staging', 'prod']
AllowedTargets == {"dev", "staging", "prod"}

InvalidTarget ==
    [code |-> 400, body |-> [error |-> "Invalid target. Must be dev, staging, or prod"]]

\* Flask's answer when the view function raises
InternalServerError == [code |-> 500, body |-> [error |-> "Internal Server Error"]]

Jsonify(v) == [code |-> 200, body |-> v]

\* run_dbt_pipeline from the return of run_full_pipeline on: the metric
\* calls made and the response, given what the sink does on each call
PipelineFinish(tgt, start, end, rs, sink1, sink2) ==
    LET duration == end - start
        success_count == CountStatus(rs, "success")
        error_count == CountStatus(rs, "error")
        labels == [target |-> tgt]
        m1 == send_monitoring_metric("pipeline_duration", Number(duration, 1), labels, sink1)
        ratio == SuccessRate(rs)
        m2 == send_monitoring_metric("pipeline_success_rate", ratio, labels, sink2)
        overall_status == IF AllSuccess(rs) THEN "success" ELSE "failed"
    IN  IF m1.raised
        THEN [metrics |-> <<m1.call>>, response |-> InternalServerError]
        ELSE IF IsRaised(ratio)
        THEN [metrics |-> <<m1.call>>, response |-> InternalServerError]
        ELSE IF m2.raised
        THEN [metrics |-> <<m1.call, m2.call>>, response |-> InternalServerError]
        ELSE [metrics |-> <<m1.call, m2.call>>,
              response |-> Jsonify(
                [status |-> overall_status,
                 target |-> tgt,
                 start_time |-> start,
                 end_time |-> end,
                 duration_seconds |-> duration,
                 results |-> rs,
                 summary |-> [total_commands |-> Len(rs),
                              successful |-> success_count,
                              errors |-> error_count]])]

\* the default applied only when there is no body at all: an empty object
\* yields None
BodyTargetNoneOnEmpty(body, default) ==
    IF body.json = "object"
    THEN (IF "target" \in DOMAIN body THEN body.target ELSE "None")
    ELSE default

\* request.json.get('target', 'dev') if request.json else 'dev': an empty
\* object is falsy, like no body
BodyTarget(body, default) ==
    IF body.json = "object" /\ "target" \in DOMAIN body THEN body.target ELSE default

Idle(r) == pc[r] = "idle"

\* one list kept on the shared dbt_runner instance instead of a local
FrameShared(r) == CHOOSE q \in Reqs : TRUE

\* results = []: the list run_full_pipeline appends to is a local of the
\* call, one per request being served
Frame(r) == r

TypeOK ==
    /\ now \in 0..MaxClock
    /\ pc \in [Reqs -> {"idle", "deps", "seed", "run", "test",
                        "model_run", "model_test", "tests", "done"}]
    /\ handler \in [Reqs -> {"none", "run_dbt_pipeline", "run_specific_model", "run_tests"}]

Init ==
    /\ now = 0
    /\ pc = [r \in Reqs |-> "idle"]
    /\ handler = [r \in Reqs |-> "none"]
    /\ target = [r \in Reqs |-> "none"]
    /\ model_name = [r \in Reqs |-> "none"]
    /\ start_time = [r \in Reqs |-> 0]
    /\ end_time = [r \in Reqs |-> 0]
    /\ results = [r \in Reqs |-> <<>>]
    /\ result = [r \in Reqs |-> NoResult]
    /\ request_json = [r \in Reqs |-> NoBody]
    /\ attempted = [r \in Reqs |-> <<>>]
    /\ outcomes = [r \in Reqs |-> <<>>]
    /\ metrics = [r \in Reqs |-> <<>>]
    /\ response = [r \in Reqs |-> NoResponse]
    /\ rlist = <<>>
    /\ rate = NoResult

\* the wall clock advances
Tick ==
    /\ now < MaxClock
    /\ now' = now + 1
    /\ UNCHANGED <<pc, handler, target, model_name, start_time, end_time, results,
                   result, request_json, attempted, outcomes, metrics, response,
                   rlist, rate>>

\* POST /run/<target>: run_dbt_pipeline up to the first subprocess.run
ReceiveRunPipeline(r, t) ==
    /\ Idle(r)
    /\ handler' = [handler EXCEPT ![r] = "run_dbt_pipeline"]
    /\ target' = [target EXCEPT ![r] = t]
    /\ IF t \notin AllowedTargets
       THEN /\ response' = [response EXCEPT ![r] = InvalidTarget]
            /\ pc' = [pc EXCEPT ![r] = "done"]
            /\ UNCHANGED <<start_time, results, attempted>>
       ELSE /\ start_time' = [start_time EXCEPT ![r] = now]
            /\ results' = [results EXCEPT ![Frame(r)] = <<>>]
            /\ attempted' = [attempted EXCEPT ![r] = <<FullCommand(<<"deps">>, t)>>]
            /\ pc' = [pc EXCEPT ![r] = "deps"]
            /\ UNCHANGED response
    /\ UNCHANGED <<now, model_name, end_time, result, request_json, outcomes,
                   metrics, rlist, rate>>

\* run_dbt_pipeline: the subprocess of the stage in flight ends; the stage's
\* result is appended and run_full_pipeline goes on to the next stage, or
\* returns and the handler emits the two metrics and answers
PipelineStageReturns(r, o) ==
    /\ handler[r] = "run_dbt_pipeline"
    /\ pc[r] \in {"deps", "seed", "run", "test"}
    /\ outcomes' = [outcomes EXCEPT ![r] = Append(@, o)]
    /\ LET res == run_dbt_command(<<pc[r]>>, target[r], o)
       IN  IF IsRaised(res)
           THEN /\ response' = [response EXCEPT ![r] = InternalServerError]
                /\ pc' = [pc EXCEPT ![r] = "done"]
                /\ UNCHANGED <<results, attempted, end_time, metrics>>
           ELSE LET rs == Append(results[Frame(r)], res)
                    nxt == NextStage(pc[r], res)
                IN  /\ results' = [results EXCEPT ![Frame(r)] = rs]
                    /\ IF nxt # "return"
                       THEN /\ attempted' = [attempted EXCEPT ![r] =
                                   Append(@, FullCommand(<<nxt>>, target[r]))]
                            /\ pc' = [pc EXCEPT ![r] = nxt]
                            /\ UNCHANGED <<end_time, metrics, response>>
                       ELSE \E s1 \in SinkOutcomes, s2 \in SinkOutcomes :
                              LET fin == PipelineFinish(target[r], start_time[r], now, rs, s1, s2)
                              IN  /\ end_time' = [end_time EXCEPT ![r] = now]
                                  /\ metrics' = [metrics EXCEPT ![r] = fin.metrics]
                                  /\ response' = [response EXCEPT ![r] = fin.response]
                                  /\ pc' = [pc EXCEPT ![r] = "done"]
                                  /\ UNCHANGED attempted
    /\ UNCHANGED <<now, handler, target, model_name, start_time, result, request_json,
                   rlist, rate>>

\* POST /run/models/<model_name>: run_specific_model up to its first
\* subprocess.run
ReceiveRunModel(r, m, body) ==
    /\ Idle(r)
    /\ LET t == BodyTarget(body, "dev")
       IN  /\ handler' = [handler EXCEPT ![r] = "run_specific_model"]
           /\ model_name' = [model_name EXCEPT ![r] = m]
           /\ request_json' = [request_json EXCEPT ![r] = body]
           /\ target' = [target EXCEPT ![r] = t]
           /\ attempted' = [attempted EXCEPT ![r] =
                  <<FullCommand(<<"run", "--select", m>>, t)>>]
           /\ pc' = [pc EXCEPT ![r] = "model_run"]
    /\ UNCHANGED <<now, start_time, end_time, results, result, outcomes, metrics,
                   response, rlist, rate>>

\* run_specific_model: the run or the test subprocess ends
ModelStageReturns(r, o) ==
    /\ handler[r] = "run_specific_model"
    /\ pc[r] \in {"model_run", "model_test"}
    /\ outcomes' = [outcomes EXCEPT ![r] = Append(@, o)]
    /\ LET verb == IF pc[r] = "model_run" THEN "run" ELSE "test"
           cmd == <<verb, "--select", model_name[r]>>
           res == run_dbt_command(cmd, target[r], o)
       IN  IF IsRaised(res)
           THEN /\ response' = [response EXCEPT ![r] = InternalServerError]
                /\ pc' = [pc EXCEPT ![r] = "done"]
                /\ UNCHANGED <<result, attempted>>
           ELSE IF pc[r] = "model_run"
           THEN /\ result' = [result EXCEPT ![r] = res]
                /\ IF res.status = "success"
                   THEN /\ attempted' = [attempted EXCEPT ![r] = Append(@,
                               FullCommand(<<"test", "--select", model_name[r]>>, target[r]))]
                        /\ pc' = [pc EXCEPT ![r] = "model_test"]
                        /\ UNCHANGED response
                   ELSE /\ response' = [response EXCEPT ![r] = Jsonify(res)]
                        /\ pc' = [pc EXCEPT ![r] = "done"]
                        /\ UNCHANGED attempted
           ELSE LET nested == ("test_result" :> res) @@ result[r]
                IN  /\ result' = [result EXCEPT ![r] = nested]
                    /\ response' = [response EXCEPT ![r] = Jsonify(nested)]
                    /\ pc' = [pc EXCEPT ![r] = "done"]
                    /\ UNCHANGED attempted
    /\ UNCHANGED <<now, handler, target, model_name, start_time, end_time, results,
                   request_json, metrics, rlist, rate>>

\* POST /test/<target>: run_tests up to its subprocess.run
ReceiveRunTests(r, t) ==
    /\ Idle(r)
    /\ handler' = [handler EXCEPT ![r] = "run_tests"]
    /\ target' = [target EXCEPT ![r] = t]
    /\ IF t \notin AllowedTargets
       THEN /\ response' = [response EXCEPT ![r] = InvalidTarget]
            /\ pc' = [pc EXCEPT ![r] = "done"]
            /\ UNCHANGED attempted
       ELSE /\ attempted' = [attempted EXCEPT ![r] = <<FullCommand(<<"test">>, t)>>]
            /\ pc' = [pc EXCEPT ![r] = "tests"]
            /\ UNCHANGED response
    /\ UNCHANGED <<now, model_name, start_time, end_time, results, result, request_json,
                   outcomes, metrics, rlist, rate>>

\* run_tests: the test subprocess ends and the handler answers
TestsReturns(r, o) ==
    /\ handler[r] = "run_tests"
    /\ pc[r] = "tests"
    /\ outcomes' = [outcomes EXCEPT ![r] = Append(@, o)]
    /\ LET res == run_dbt_command(<<"test">>, target[r], o)
       IN  IF IsRaised(res)
           THEN /\ response' = [response EXCEPT ![r] = InternalServerError]
                /\ UNCHANGED result
           ELSE /\ result' = [result EXCEPT ![r] = res]
                /\ response' = [response EXCEPT ![r] = Jsonify(res)]
    /\ pc' = [pc EXCEPT ![r] = "done"]
    /\ UNCHANGED <<now, handler, target, model_name, start_time, end_time, results,
                   request_json, attempted, metrics, rlist, rate>>

\* the response leaves; the worker is free for the next request
SendResponse(r) ==
    /\ pc[r] = "done"
    /\ pc' = [pc EXCEPT ![r] = "idle"]
    /\ handler' = [handler EXCEPT ![r] = "none"]
    /\ target' = [target EXCEPT ![r] = "none"]
    /\ model_name' = [model_name EXCEPT ![r] = "none"]
    /\ start_time' = [start_time EXCEPT ![r] = 0]
    /\ end_time' = [end_time EXCEPT ![r] = 0]
    /\ results' = [results EXCEPT ![r] = <<>>]
    /\ result' = [result EXCEPT ![r] = NoResult]
    /\ request_json' = [request_json EXCEPT ![r] = NoBody]
    /\ attempted' = [attempted EXCEPT ![r] = <<>>]
    /\ outcomes' = [outcomes EXCEPT ![r] = <<>>]
    /\ metrics' = [metrics EXCEPT ![r] = <<>>]
    /\ response' = [response EXCEPT ![r] = NoResponse]
    /\ UNCHANGED <<now, rlist, rate>>

Next ==
    \/ Tick
    \/ \E r \in Serial, t \in Targets : ReceiveRunPipeline(r, t)
    \/ \E r \in Serial, o \in Outcomes : PipelineStageReturns(r, o)
    \/ \E r \in Serial, m \in Models, b \in Bodies : ReceiveRunModel(r, m, b)
    \/ \E r \in Serial, o \in Outcomes : ModelStageReturns(r, o)
    \/ \E r \in Serial, t \in Targets : ReceiveRunTests(r, t)
    \/ \E r \in Serial, o \in Outcomes : TestsReturns(r, o)
    \/ \E r \in Serial : SendResponse(r)

Spec == Init /\ [][Next]_vars

\* ---------------------------------------------------------------- concurrent triggers
\* two clients posting /run/<target> at once: each request is served on its
\* own thread, and the subprocesses end as success, failure or timeout; the
\* window is short enough that utcnow() reads the same tick throughout
ConcTargets == {"dev", "prod"}
ConcOutcomes ==
    {[kind |-> "exit", returncode |-> 0, stdout |-> "", stderr |-> ""],
     [kind |-> "exit", returncode |-> 1, stdout |-> "text", stderr |-> ""],
     [kind |-> "timeout"]}

NextConc ==
    \/ \E r \in Reqs, t \in ConcTargets : ReceiveRunPipeline(r, t)
    \/ \E r \in Reqs, o \in ConcOutcomes : PipelineStageReturns(r, o)
    \/ \E r \in Reqs : SendResponse(r)

SpecConc == Init /\ [][NextConc]_vars

\* ---------------------------------------------------------------- success ratio
Statuses == {"success", "error", "timeout"}
ResultLists == UNION {[1..n -> [status : Statuses]] : n \in 0..MaxLen}

\* any result list, the empty one included, is handed to the ratio
InitRatio ==
    /\ now = 0
    /\ pc = [r \in Reqs |-> "idle"]
    /\ handler = [r \in Reqs |-> "none"]
    /\ target = [r \in Reqs |-> "none"]
    /\ model_name = [r \in Reqs |-> "none"]
    /\ start_time = [r \in Reqs |-> 0]
    /\ end_time = [r \in Reqs |-> 0]
    /\ results = [r \in Reqs |-> <<>>]
    /\ result = [r \in Reqs |-> NoResult]
    /\ request_json = [r \in Reqs |-> NoBody]
    /\ attempted = [r \in Reqs |-> <<>>]
    /\ outcomes = [r \in Reqs |-> <<>>]
    /\ metrics = [r \in Reqs |-> <<>>]
    /\ response = [r \in Reqs |-> NoResponse]
    /\ rlist \in ResultLists
    /\ rate = NoResult

\* run_dbt_pipeline's second metric value
ComputeSuccessRate ==
    /\ rate = NoResult
    /\ rate' = SuccessRate(rlist)
    /\ UNCHANGED <<now, pc, handler, target, model_name, start_time, end_time, results,
                   result, request_json, attempted, outcomes, metrics, response, rlist>>

NextRatio == ComputeSuccessRate

SpecRatio == InitRatio /\ [][NextRatio]_vars

\* ---------------------------------------------------------------- properties
Pipeline(r) == handler[r] = "run_dbt_pipeline" /\ target[r] \in {"dev", "staging", "prod"}
Answered(r) == pc[r] = "done"
Argv(verb, tgt) == <<"dbt", verb, "--target", tgt, "--project-dir", "/app/dbt_project">>
\* the verbs of the subprocesses a request started, in order
Verbs(r) == [i \in 1..Len(attempted[r]) |-> attempted[r][i][2]]
Commands(rs) == [i \in 1..Len(rs) |-> rs[i].command]

\* C1: in a full pipeline run, once the deps result is recorded with a status
\* other than success, the run is over: deps is the only command ever started,
\* the result list is that one result, the handler has answered, and the
\* overall status it reports is not success.
C1_DepsFailureEndsRun ==
    \A r \in Reqs :
        (/\ Pipeline(r)
         /\ outcomes[r] # <<>>
         /\ \/ results[r][1].status # "success"
            \/ ~(outcomes[r][1].kind = "exit" /\ outcomes[r][1].returncode = 0)) =>
            /\ Len(results[r]) = 1
            /\ results[r][1].status \in {"error", "timeout"}
            /\ attempted[r] = <<Argv("deps", target[r])>>
            /\ Answered(r)
            /\ response[r].code = 200
            /\ response[r].body.results = results[r]
            /\ Len(response[r].body.results) = 1
            /\ response[r].body.status # "success"

C1_Witness ==
    \E r \in Reqs :
        /\ Pipeline(r) /\ Answered(r)
        /\ Len(outcomes[r]) = 1 /\ outcomes[r][1].kind = "timeout"
        /\ response[r].body.status = "failed"

\* C2: in a full pipeline run, once the run stage's result is recorded with a
\* status other than success, test is never started and the result list is
\* exactly the results of deps, seed, run in that order, whatever the status
\* of seed.
C2_RunFailureSkipsTest ==
    \A r \in Reqs :
        (Pipeline(r) /\ Len(results[r]) >= 3 /\ results[r][3].status # "success") =>
            /\ results[r][1].status = "success"
            /\ Len(results[r]) = 3
            /\ Commands(results[r]) = << <<"deps">>, <<"seed">>, <<"run">> >>
            /\ Verbs(r) = <<"deps", "seed", "run">>
            /\ Answered(r)
            /\ response[r].body.results = results[r]

C2_Witness ==
    \E r \in Reqs :
        /\ Pipeline(r) /\ Answered(r)
        /\ Len(results[r]) = 3
        /\ results[r][2].status = "timeout"
        /\ results[r][3].status = "error"

\* C3: the run-pipeline operation reports overall status success exactly
\* when every Stage Result it returns is success, and then the list is the
\* four results of deps, seed, run, test in that order; four successful
\* subprocesses give that outcome.
C3_OverallStatus ==
    \A r \in Reqs :
        (Pipeline(r) /\ Answered(r)) =>
            LET b == response[r].body
            IN  /\ response[r].code = 200
                /\ (b.status = "success") <=>
                       (\A i \in 1..Len(b.results) : b.results[i].status = "success")
                /\ b.status \in {"success", "failed"}
                /\ (b.status = "success") =>
                       /\ Commands(b.results) = << <<"deps">>, <<"seed">>, <<"run">>, <<"test">> >>
                       /\ b.summary.total_commands = 4
                /\ (/\ Len(outcomes[r]) = 4
                    /\ \A i \in 1..4 : outcomes[r][i].kind = "exit" /\ outcomes[r][i].returncode = 0)
                       => b.status = "success"

C3_Witness ==
    \E r \in Reqs :
        /\ Pipeline(r) /\ Answered(r)
        /\ response[r].body.status = "success"
        /\ Len(response[r].body.results) = 4

\* C4 as stated: in a full pipeline run every stage whose subprocess timed
\* out is the last one started: its result has status timeout, no later
\* stage is attempted, and the overall status is not success.
C4_AnyTimeoutEndsRun ==
    \A r \in Reqs :
        Pipeline(r) =>
            \A i \in 1..Len(outcomes[r]) :
                outcomes[r][i].kind = "timeout" =>
                    /\ results[r][i].status = "timeout"
                    /\ Len(attempted[r]) = i
                    /\ Answered(r)
                    /\ response[r].body.status # "success"

\* C4 amended: a timeout of deps, run or test gives a result of status
\* timeout and ends the run with no later stage attempted; a timeout of seed
\* gives a result of status timeout and run is attempted next all the same;
\* in every case the overall status reported is not success.
C4_TimeoutEndsRunExceptSeed ==
    \A r \in Reqs :
        Pipeline(r) =>
            \A i \in 1..Len(outcomes[r]) :
                outcomes[r][i].kind = "timeout" =>
                    /\ results[r][i].status = "timeout"
                    /\ Verbs(r)[i] # "seed" =>
                           /\ Len(attempted[r]) = i
                           /\ Answered(r)
                    /\ Verbs(r)[i] = "seed" =>
                           /\ Len(attempted[r]) >= 3
                           /\ Verbs(r)[3] = "run"
                    /\ Answered(r) => response[r].body.status # "success"

C4_Witness ==
    \E r \in Reqs :
        /\ Pipeline(r) /\ Answered(r)
        /\ Len(outcomes[r]) = 3
        /\ outcomes[r][2].kind = "timeout"
        /\ outcomes[r][3].kind = "timeout"
        /\ Verbs(r) = <<"deps", "seed", "run">>
        /\ response[r].body.status = "failed"

\* C5: run-pipeline and run-tests answer a target outside dev, staging, prod
\* with 400, and on that path start no subprocess, produce no Stage Result and
\* make no metric call; a target inside the set is never answered 400.
C5_InvalidTargetRejected ==
    \A r \in Reqs :
        handler[r] \in {"run_dbt_pipeline", "run_tests"} =>
            /\ target[r] \notin {"dev", "staging", "prod"} =>
                   /\ Answered(r)
                   /\ response[r].code = 400
                   /\ DOMAIN response[r].body = {"error"}
                   /\ attempted[r] = <<>>
                   /\ outcomes[r] = <<>>
                   /\ results[r] = <<>>
                   /\ result[r] = NoResult
                   /\ metrics[r] = <<>>
            /\ target[r] \in {"dev", "staging", "prod"} =>
                   /\ attempted[r] # <<>>
                   /\ Answered(r) => response[r].code # 400

C5_Witness ==
    \E r \in Reqs :
        /\ handler[r] = "run_tests"
        /\ target[r] = "production"
        /\ response[r].code = 400

\* C6: the response of run-pipeline does not depend on the sink: the
\* response given is the one the handler would have given, for the same
\* target, times and result list, under every other pair of sink outcomes;
\* it is never the 500 of a propagated fault, and both metric calls are made.
C6_ResponseIndependentOfSink ==
    \A r \in Reqs :
        (Pipeline(r) /\ Answered(r)) =>
            /\ \A s1 \in SinkOutcomes, s2 \in SinkOutcomes :
                   response[r] = PipelineFinish(target[r], start_time[r], end_time[r],
                                                results[r], s1, s2).response
            /\ response[r].code = 200
            /\ response[r].body.results = results[r]
            /\ Len(metrics[r]) = 2

C6_Witness ==
    \E r \in Reqs :
        /\ Pipeline(r) /\ Answered(r)
        /\ Len(metrics[r]) = 2
        /\ ~metrics[r][1].delivered
        /\ ~metrics[r][2].delivered
        /\ response[r].body.status = "success"

Model(r) == handler[r] = "run_specific_model"
SelectArgv(verb, m, tgt) ==
    <<"dbt", verb, "--select", m, "--target", tgt, "--project-dir", "/app/dbt_project">>
\* the run stage's own keys, without the nested test result
RunPart(res) == [k \in DOMAIN res \ {"test_result"} |-> res[k]]

\* C7: run-specific-model for m starts `run --select m` first, with the
\* body's target or dev when the body gives none; `test --select m` is
\* started exactly when the run result is success, after it, with the same
\* target, and its result is nested under the run result as test_result; when
\* the run result is not success the response is the run result alone.
C7_ModelRunThenTest ==
    \A r \in Reqs :
        Model(r) =>
            LET m == model_name[r]
                t == target[r]
            IN  /\ t = (IF "target" \in DOMAIN request_json[r]
                        THEN request_json[r].target ELSE "dev")
                /\ attempted[r] # <<>>
                /\ attempted[r][1] = SelectArgv("run", m, t)
                /\ Len(attempted[r]) <= 2
                /\ Len(attempted[r]) = 2 =>
                       /\ attempted[r][2] = SelectArgv("test", m, t)
                       /\ result[r].status = "success"
                       /\ outcomes[r][1].kind = "exit" /\ outcomes[r][1].returncode = 0
                /\ (outcomes[r] # <<>> /\ result[r].status = "success") =>
                       Len(attempted[r]) = 2
                /\ (outcomes[r] # <<>> /\ result[r].status # "success") =>
                       /\ Len(attempted[r]) = 1
                       /\ Answered(r)
                       /\ response[r] = [code |-> 200, body |-> result[r]]
                       /\ "test_result" \notin DOMAIN response[r].body
                /\ (Answered(r) /\ result[r].status = "success") =>
                       /\ Len(outcomes[r]) = 2
                       /\ response[r].code = 200
                       /\ RunPart(response[r].body).command = <<"run", "--select", m>>
                       /\ "test_result" \in DOMAIN response[r].body
                       /\ response[r].body.test_result.command = <<"test", "--select", m>>
                       /\ response[r].body.test_result.target = t
                       /\ "test_result" \notin DOMAIN response[r].body.test_result

C7_Witness ==
    \E r \in Reqs :
        /\ Model(r) /\ Answered(r)
        /\ model_name[r] = "daily_metrics"
        /\ request_json[r] = EmptyBody
        /\ target[r] = "dev"
        /\ attempted[r] = <<SelectArgv("run", "daily_metrics", "dev"),
                            SelectArgv("test", "daily_metrics", "dev")>>
        /\ "test_result" \in DOMAIN response[r].body
        /\ response[r].body.status = "success"
        /\ response[r].body.test_result.status = "error"

\* every Stage Result a request holds, with the outcome, the argv and the
\* target of the subprocess it came from
StageRecords(r) ==
    IF handler[r] = "run_dbt_pipeline"
    THEN {<<results[r][i], outcomes[r][i], attempted[r][i]>> : i \in 1..Len(results[r])}
    ELSE IF outcomes[r] = <<>> THEN {}
    ELSE IF Len(outcomes[r]) = 1
    THEN {<<result[r], outcomes[r][1], attempted[r][1]>>}
    ELSE {<<RunPart(result[r]), outcomes[r][1], attempted[r][1]>>,
          <<result[r].test_result, outcomes[r][2], attempted[r][2]>>}

\* C8: every subprocess that has ended left a Stage Result and no handler
\* answered 500: exit code 0 gives status success, a nonzero exit code gives
\* status error with that returncode, a timeout gives status timeout, any
\* other failure gives status error with the exception's message as error;
\* the result carries the command and the target the subprocess was started
\* with.
C8_AlwaysAStageResult ==
    \A r \in Reqs :
        /\ response[r] # NoResponse => response[r].code \in {200, 400}
        /\ handler[r] = "run_dbt_pipeline" => Len(results[r]) = Len(outcomes[r])
        /\ handler[r] \in {"run_specific_model", "run_tests"} =>
               (outcomes[r] # <<>> <=> result[r] # NoResult)
        /\ \A rec \in StageRecords(r) :
               LET res == rec[1]
                   o == rec[2]
                   argv == rec[3]
               IN  /\ {"status", "command", "target"} \subseteq DOMAIN res
                   /\ o.kind = "exit" /\ o.returncode = 0 =>
                          /\ res.status = "success"
                          /\ res.stdout = o.stdout /\ res.stderr = o.stderr
                   /\ o.kind = "exit" /\ o.returncode # 0 =>
                          /\ res.status = "error"
                          /\ res.returncode = o.returncode
                          /\ res.stdout = o.stdout /\ res.stderr = o.stderr
                   /\ o.kind = "timeout" => res.status = "timeout"
                   /\ o.kind = "raise" => res.status = "error" /\ res.error = o.msg
                   /\ argv = <<"dbt">> \o res.command
                                \o <<"--target", res.target, "--project-dir", "/app/dbt_project">>
                   /\ res.target = target[r]

C8_Witness ==
    \E r \in Reqs :
        /\ handler[r] = "run_tests" /\ Answered(r)
        /\ outcomes[r] # <<>>
        /\ outcomes[r][1].kind = "raise"
        /\ response[r].code = 200
        /\ response[r].body.status = "error"
        /\ response[r].body.error = outcomes[r][1].msg

SuccessfulIn(rs) == Cardinality({i \in 1..Len(rs) : rs[i].status = "success"})

\* C9: the success ratio computed for a result list is a number, never a
\* division fault: 0 for the empty list, and otherwise the number of results
\* of status success over the number of results.
C9_SuccessRatio ==
    rate # NoResult =>
        /\ DOMAIN rate = {"num", "den"}
        /\ rate.den > 0
        /\ rlist = <<>> => rate.num = 0
        /\ rate.num * Len(rlist) = SuccessfulIn(rlist) * rate.den

C9_Witness ==
    /\ rlist = <<>>
    /\ rate = [num |-> 0, den |-> 1]

\* C10: in a full pipeline run, once deps has succeeded seed is started, and
\* once seed's result is recorded, whatever its status, run has been started
\* next: the seed result stays in the list and in the response.
C10_SeedNeverShortCircuits ==
    \A r \in Reqs :
        Pipeline(r) =>
            /\ (results[r] # <<>> /\ results[r][1].status = "success") =>
                   /\ Len(attempted[r]) >= 2
                   /\ attempted[r][2] = Argv("seed", target[r])
            /\ Len(results[r]) >= 2 =>
                   /\ results[r][2].command = <<"seed">>
                   /\ Len(attempted[r]) >= 3
                   /\ attempted[r][3] = Argv("run", target[r])
            /\ (Answered(r) /\ Len(outcomes[r]) >= 2) =>
                   /\ Len(response[r].body.results) >= 3
                   /\ response[r].body.results[2] = results[r][2]
                   /\ response[r].body.results[3].command = <<"run">>

C10_Witness ==
    \E r \in Reqs :
        /\ Pipeline(r) /\ Answered(r)
        /\ Len(outcomes[r]) = 4
        /\ outcomes[r][2].kind = "exit" /\ outcomes[r][2].returncode = 1
        /\ results[r][2].status = "error"
        /\ Len(results[r]) = 4
        /\ results[r][3].status = "success"

StageOrder == <<"deps", "seed", "run", "test">>
IsPrefix(s, t) == Len(s) <= Len(t) /\ \A i \in 1..Len(s) : s[i] = t[i]
InFlight(r) == pc[r] \in {"deps", "seed", "run", "test"}

\* C11: in every state of a full pipeline run the commands started so far
\* are a non-empty prefix of deps, seed, run, test, the results recorded are
\* those of the same stages in the same order, at most one started stage has
\* no result yet (the one in flight, the last started), and once the handler
\* has answered every started stage is recorded and the list returned is that
\* non-empty prefix.
C11_StagesArePrefix ==
    \A r \in Reqs :
        Pipeline(r) =>
            /\ attempted[r] # <<>>
            /\ IsPrefix(Verbs(r), StageOrder)
            /\ \A i \in 1..Len(attempted[r]) :
                   attempted[r][i] = Argv(StageOrder[i], target[r])
            /\ Len(results[r]) <= Len(attempted[r])
            /\ Len(attempted[r]) <= Len(results[r]) + 1
            /\ \A i \in 1..Len(results[r]) : results[r][i].command = <<StageOrder[i]>>
            /\ InFlight(r) <=> Len(attempted[r]) = Len(results[r]) + 1
            /\ InFlight(r) => pc[r] = StageOrder[Len(attempted[r])]
            /\ Answered(r) <=> Len(attempted[r]) = Len(results[r])
            /\ Answered(r) =>
                   /\ response[r].body.results = results[r]
                   /\ response[r].body.results # <<>>
                   /\ response[r].body.summary.total_commands = Len(attempted[r])

C11_Witness ==
    \E r \in Reqs :
        /\ Pipeline(r) /\ Answered(r)
        /\ Verbs(r) = StageOrder
        /\ Len(results[r]) = 4
        /\ results[r][2].status = "timeout"
        /\ results[r][4].status = "error"

\* the Stage Result a subprocess outcome leaves, read off the outcome alone
OwnResult(res, o) ==
    /\ o.kind = "exit" =>
           /\ res.status = (IF o.returncode = 0 THEN "success" ELSE "error")
           /\ res.stdout = o.stdout
           /\ (o.returncode # 0 => res.returncode = o.returncode)
    /\ o.kind = "timeout" => res.status = "timeout"
    /\ o.kind = "raise" => res.status = "error" /\ res.error = o.msg

\* C12: with two run-pipeline requests being served, a request that is idle
\* can always be started for the target another request has a command in
\* flight for (nothing keyed by target holds it back), and under every
\* interleaving the result list of a request holds, in order, exactly the
\* results of the subprocesses that request itself started, and so does the
\* list it returns.
C12_NoExclusionOwnResults ==
    \A r \in Reqs :
        /\ \A q \in Reqs \ {r} :
               (Idle(r) /\ InFlight(q)) => ENABLED ReceiveRunPipeline(r, target[q])
        /\ Pipeline(r) =>
               /\ Len(results[r]) = Len(outcomes[r])
               /\ \A i \in 1..Len(results[r]) :
                      /\ OwnResult(results[r][i], outcomes[r][i])
                      /\ results[r][i].target = target[r]
                      /\ attempted[r][i] = Argv(results[r][i].command[1], target[r])
               /\ Answered(r) => response[r].body.results = results[r]

\* both requests have a command in flight at once for the same target, and
\* their result lists already differ
C12_Witness ==
    /\ InFlight("r1") /\ InFlight("r2")
    /\ Pipeline("r1") /\ Pipeline("r2")
    /\ target["r1"] = target["r2"]
    /\ pc["r1"] = "run" /\ pc["r2"] = "run"
    /\ results["r1"][2].status = "timeout"
    /\ results["r2"][2].status = "success"

====
